---- MODULE Spec2Model ----
(***************************************************************************)
(* Model of the prompt-extension backend: the request schema of            *)
(* src/api/models.py as enforced on the body of POST /prompts/generate,    *)
(* the prompt composer of src/api/prompt_builder.py and the route handler  *)
(* of src/api/routes.py.                                                   *)
(*                                                                         *)
(* A Python str is modelled as a sequence of one-character strings, so     *)
(* that strip(), join() and the split into lines are computed character by *)
(* character.  A JSON value of a payload is a record with a type tag.      *)
(***************************************************************************)
EXTENDS Integers, Sequences, FiniteSets, TLC

VARIABLES pc, payload, body, response

vars == <<pc, payload, body, response>>

(***************************************************************************)
(* Bounds of the model.                                                    *)
(***************************************************************************)
\* number of requests the service handles at the same time
MaxRequests == 2
\* longest free text (in characters) enumerated for a text field
MaxTextLen == 2
\* most entries enumerated for a keywords / avoid list of a valid request
MaxListItems == 2

(***************************************************************************)
(* Declared bounds of the schema (src/api/models.py).                      *)
(***************************************************************************)
MaxKeywords == 30
MaxAvoid == 30
MaxBrandName == 120
MaxTagline == 200
MaxDescription == 800
MaxTargetAudience == 400
MaxFormattingNotes == 400
MaxBrief == 2000
MaxAdditionalContext == 2000
MinBrandName == 1
MinBrief == 1
MinEmojiLevel == 0
MaxEmojiLevel == 5

(***************************************************************************)
(* Python strings.                                                         *)
(***************************************************************************)
\* the characters of a string literal, as a sequence
Chars(s) == [i \in 1..Len(s) |-> SubSeq(s, i, i)]

\* the characters str.strip() removes (ASCII whitespace)
Whitespace == {" ", "\t", "\n", "\r", "\f"}

IsSpace(c) == c \in Whitespace

\* str.strip(): leading and trailing whitespace removed
Strip(s) ==
  IF \A i \in 1..Len(s) : IsSpace(s[i]) THEN <<>>
  ELSE LET first == CHOOSE i \in 1..Len(s) :
                       ~IsSpace(s[i]) /\ \A j \in 1..(i-1) : IsSpace(s[j])
           last  == CHOOSE i \in 1..Len(s) :
                       ~IsSpace(s[i]) /\ \A j \in (i+1)..Len(s) : IsSpace(s[j])
       IN SubSeq(s, first, last)

RECURSIVE Join(_, _)
\* sep.join(parts)
Join(sep, parts) ==
  IF parts = <<>> THEN <<>>
  ELSE IF Len(parts) = 1 THEN parts[1]
  ELSE parts[1] \o sep \o Join(sep, Tail(parts))

\* the truth value of a str: empty is falsy
Truthy(s) == s # <<>>

RECURSIVE IntToStr(_)
\* str(n) of an int, as an f-string renders it
IntToStr(n) ==
  IF n < 0 THEN <<"-">> \o IntToStr(-n)
  ELSE IF n < 10 THEN <<SubSeq("0123456789", n + 1, n + 1)>>
  ELSE IntToStr(n \div 10) \o <<SubSeq("0123456789", (n % 10) + 1, (n % 10) + 1)>>

\* Optional[str]: None, or a str
None == [some |-> FALSE, v |-> <<>>]
Some(s) == [some |-> TRUE, v |-> s]

\* a placeholder given only for None: an empty str is rendered as it is
OrNAOnlyNone(x) == IF x.some THEN x.v ELSE Chars("N/A")

\* `x or 'N/A'` for an Optional[str] x: None and the empty str are falsy
OrNA(x) == IF x.some /\ Truthy(x.v) THEN x.v ELSE Chars("N/A")

(***************************************************************************)
(* Enumerated domains (src/api/models.py).  A member is named by its       *)
(* token; EnumValue is its .value as a str.                                *)
(***************************************************************************)
Orientation == {"post", "ad", "email", "landing_page", "other"}

Platform == {"instagram", "tiktok", "facebook", "linkedin", "x", "youtube",
             "blog", "website", "other"}

Tone == {"professional", "friendly", "playful", "bold", "luxurious",
         "minimalist", "other"}

LengthPreference == {"short", "medium", "long"}

EnumValue(member) == Chars(member)

(***************************************************************************)
(* Prompt composer (src/api/prompt_builder.py).                            *)
(***************************************************************************)
\* a join that puts a space, not a line break, between the entries
JoinNonemptyWithSpace(lines) ==
  Join(<<" ">>, SelectSeq(lines, LAMBDA ln : Truthy(ln) /\ Truthy(Strip(ln))))

\* _join_nonempty: the entries that are non-empty and not whitespace-only,
\* joined with a newline
JoinNonempty(lines) ==
  Join(<<"\n">>, SelectSeq(lines, LAMBDA ln : Truthy(ln) /\ Truthy(Strip(ln))))

PlatformNotesTable ==
  [instagram |-> "Optimize for Instagram: strong hook, short paragraphs, optional hashtags.",
   tiktok    |-> "Optimize for TikTok: punchy, conversational, high-energy; include on-screen text suggestions if useful.",
   facebook  |-> "Optimize for Facebook: clear value proposition, friendly tone, encourage comments/shares when relevant.",
   linkedin  |-> "Optimize for LinkedIn: professional, credible, insight-driven; avoid slang.",
   x         |-> "Optimize for X: concise, bold, high signal; consider a short thread if needed.",
   youtube   |-> "Optimize for YouTube: include a title + hook; structure for spoken delivery if applicable.",
   blog      |-> "Optimize for blog: outline-first, SEO-aware headings, clear structure.",
   website   |-> "Optimize for web/landing: benefits-first, scannable sections, clear CTA.",
   other     |-> "Optimize for the specified platform context."]

\* _platform_notes: notes.get(platform, notes["other"])
PlatformNotes(platform) ==
  IF platform \in DOMAIN PlatformNotesTable
  THEN Chars(PlatformNotesTable[platform])
  ELSE Chars(PlatformNotesTable["other"])

OrientationNotesTable ==
  [post         |-> "Create a social post draft.",
   ad           |-> "Create ad-focused copy (attention, offer, CTA) and include 2-3 variants.",
   email        |-> "Create an email draft with subject lines and a clear CTA.",
   landing_page |-> "Create landing-page copy with hero, benefits, social proof ideas, and CTA.",
   other        |-> "Create content appropriate to the intent described."]

\* _orientation_notes: notes.get(orientation, notes["other"])
OrientationNotes(orientation) ==
  IF orientation \in DOMAIN OrientationNotesTable
  THEN Chars(OrientationNotesTable[orientation])
  ELSE Chars(OrientationNotesTable["other"])

LengthMap ==
  [short  |-> "Keep it concise.",
   medium |-> "Keep it moderately detailed.",
   long   |-> "Make it thorough and detailed."]

\* length_map.get(length, '')
LengthClause(length) ==
  IF length \in DOMAIN LengthMap THEN Chars(LengthMap[length]) ELSE <<>>

\* ", ".join(xs) if xs else "N/A"
KeywordsText(xs) == IF xs # <<>> THEN Join(Chars(", "), xs) ELSE Chars("N/A")

\* an emoji instruction that takes level 1 for "no emojis" as well
EmojiInstructionOffByOne(emoji_level) ==
  IF emoji_level <= 1
  THEN Chars("Do not use emojis.")
  ELSE Chars("Use emojis sparingly at level ") \o IntToStr(emoji_level) \o Chars("/5.")

EmojiInstruction(emoji_level) ==
  IF emoji_level = 0
  THEN Chars("Do not use emojis.")
  ELSE Chars("Use emojis sparingly at level ") \o IntToStr(emoji_level) \o Chars("/5.")

\* a hashtag instruction with the two branches swapped
HashtagInstructionSwapped(include_hashtags) ==
  IF include_hashtags
  THEN Chars("Do not include hashtags.")
  ELSE Chars("Include relevant hashtags at the end.")

HashtagInstruction(include_hashtags) ==
  IF include_hashtags
  THEN Chars("Include relevant hashtags at the end.")
  ELSE Chars("Do not include hashtags.")

PersonaLine == Chars("You are a world-class brand copywriter and prompt engineer.")

OutputRequirements ==
  << Chars("- Output only the final content (no analysis)."),
     Chars("- Ensure the content is on-brand and platform-appropriate."),
     Chars("- Provide 1 primary version, plus variants if the orientation suggests it (e.g., ads).") >>

\* the list build_prompt hands to _join_nonempty
PromptParts(req) ==
  << PersonaLine,
     <<>>,
     Chars("## Task"),
     OrientationNotes(req.orientation),
     PlatformNotes(req.platform),
     <<>>,
     Chars("## Brand"),
     Chars("Brand name: ") \o req.brand.brand_name,
     Chars("Tagline: ") \o OrNA(req.brand.tagline),
     Chars("Description/positioning: ") \o OrNA(req.brand.description),
     Chars("Target audience: ") \o OrNA(req.brand.target_audience),
     <<>>,
     Chars("## Voice & Constraints"),
     Chars("Tone: ") \o EnumValue(req.brand.voice.tone),
     Chars("Include/Emphasize keywords: ") \o KeywordsText(req.brand.voice.keywords),
     Chars("Avoid: ") \o KeywordsText(req.brand.voice.avoid),
     <<>>,
     Chars("## Style"),
     Chars("Length: ") \o EnumValue(req.style.length) \o Chars(" (")
        \o LengthClause(req.style.length) \o Chars(")"),
     EmojiInstruction(req.style.emoji_level),
     HashtagInstruction(req.style.include_hashtags),
     Chars("Formatting notes: ") \o OrNA(req.style.formatting_notes),
     <<>>,
     Chars("## User Brief"),
     Strip(req.brief),
     <<>>,
     Chars("## Additional Context"),
     Strip(OrNA(req.additional_context)),
     <<>>,
     Chars("## Output Requirements") >> \o OutputRequirements

BuildPromptText(req) == JoinNonempty(PromptParts(req))

\* metadata that reports the default length, whatever the request asks for
BuildMetadataDefaultLength(req) ==
  [orientation      |-> EnumValue(req.orientation),
   platform         |-> EnumValue(req.platform),
   brand_name       |-> req.brand.brand_name,
   tone             |-> EnumValue(req.brand.voice.tone),
   length           |-> EnumValue("medium"),
   include_hashtags |-> req.style.include_hashtags,
   emoji_level      |-> req.style.emoji_level]

BuildMetadata(req) ==
  [orientation      |-> EnumValue(req.orientation),
   platform         |-> EnumValue(req.platform),
   brand_name       |-> req.brand.brand_name,
   tone             |-> EnumValue(req.brand.voice.tone),
   length           |-> EnumValue(req.style.length),
   include_hashtags |-> req.style.include_hashtags,
   emoji_level      |-> req.style.emoji_level]

\* build_prompt: (prompt, metadata)
BuildPrompt(req) == [prompt |-> BuildPromptText(req), metadata |-> BuildMetadata(req)]

(***************************************************************************)
(* JSON values of a request payload.  Every value carries a type tag t;    *)
(* n is the number (an int, a bool as 0/1, a float in tenths), s the       *)
(* characters of a string, l the items of a list.  An object is only       *)
(* tagged: its members are the payload fields below it.                    *)
(***************************************************************************)
JMissing == [t |-> "missing", n |-> 0, s |-> <<>>, l |-> <<>>]
JNull == [t |-> "null", n |-> 0, s |-> <<>>, l |-> <<>>]
JObject == [t |-> "object", n |-> 0, s |-> <<>>, l |-> <<>>]
JStr(s) == [t |-> "str", n |-> 0, s |-> s, l |-> <<>>]
JInt(n) == [t |-> "int", n |-> n, s |-> <<>>, l |-> <<>>]
JBool(b) == [t |-> "bool", n |-> IF b THEN 1 ELSE 0, s |-> <<>>, l |-> <<>>]
\* a float, given in tenths: JFloat(35) is 3.5
JFloat(tenths) == [t |-> "float", n |-> tenths, s |-> <<>>, l |-> <<>>]
JList(items) == [t |-> "list", n |-> 0, s |-> <<>>, l |-> items]

(***************************************************************************)
(* Validation of the request body against the schema of                    *)
(* src/api/models.py (pydantic, lax mode, as FastAPI applies it to a JSON  *)
(* body).  Each validator yields the validated value and the list of       *)
(* errors found; an error has the kind of violation, the location path of  *)
(* the field and the offending input.                                      *)
(***************************************************************************)
Err(type, loc, input) == [type |-> type, loc |-> loc, input |-> input]

Ok(v) == [value |-> v, errors |-> <<>>]

Fail(type, loc, input, placeholder) ==
  [value |-> placeholder, errors |-> <<Err(type, loc, input)>>]

\* a validator that stops at the first field that fails
CollectFailFast(errorLists) ==
  LET failed == SelectSeq(errorLists, LAMBDA es : es # <<>>)
  IN IF failed = <<>> THEN <<>> ELSE <<Head(failed)[1]>>

RECURSIVE Collect(_)
\* the errors of all the fields of a model, in the order of the fields:
\* validation goes on after a field has failed
Collect(errorLists) ==
  IF errorLists = <<>> THEN <<>>
  ELSE Head(errorLists) \o Collect(Tail(errorLists))

\* the errors of a str under Field(min_length=, max_length=)
StrErrors(j, loc, minLen, maxLen) ==
  IF j.t # "str" THEN <<Err("string_type", loc, j)>>
  ELSE IF Len(j.s) < minLen THEN <<Err("string_too_short", loc, j)>>
  ELSE IF Len(j.s) > maxLen THEN <<Err("string_too_long", loc, j)>>
  ELSE <<>>

\* a field `name: str = Field(..., min_length=, max_length=)`
RequiredStr(j, loc, parent, minLen, maxLen) ==
  IF j.t = "missing" THEN Fail("missing", loc, parent, <<>>)
  ELSE [value |-> j.s, errors |-> StrErrors(j, loc, minLen, maxLen)]

\* a field `name: Optional[str] = Field(default=None, max_length=)`
OptionalStr(j, loc, maxLen) ==
  IF j.t \in {"missing", "null"} THEN Ok(None)
  ELSE [value |-> Some(j.s), errors |-> StrErrors(j, loc, 0, maxLen)]

\* the member of a str-valued Enum whose value is the input, if any
EnumErrors(j, loc, members) ==
  IF j.t = "str" /\ \E m \in members : EnumValue(m) = j.s THEN <<>>
  ELSE <<Err("enum", loc, j)>>

EnumMember(j, members, fallback) ==
  IF j.t = "str" /\ \E m \in members : EnumValue(m) = j.s
  THEN CHOOSE m \in members : EnumValue(m) = j.s
  ELSE fallback

\* a field `name: E = Field(...)`
RequiredEnum(j, loc, parent, members) ==
  IF j.t = "missing" THEN Fail("missing", loc, parent, "other")
  ELSE [value |-> EnumMember(j, members, "other"), errors |-> EnumErrors(j, loc, members)]

\* a field `name: E = Field(default=...)`
DefaultedEnum(j, loc, members, default) ==
  IF j.t = "missing" THEN Ok(default)
  ELSE [value |-> EnumMember(j, members, default), errors |-> EnumErrors(j, loc, members)]

Digits == {"0", "1", "2", "3", "4", "5", "6", "7", "8", "9"}

DigitValue(c) == CHOOSE d \in 0..9 : SubSeq("0123456789", d + 1, d + 1) = c

RECURSIVE DigitsValue(_)
DigitsValue(ds) ==
  IF ds = <<>> THEN 0
  ELSE 10 * DigitsValue(SubSeq(ds, 1, Len(ds) - 1)) + DigitValue(ds[Len(ds)])

\* the digits of a decimal numeral, its sign removed
Unsigned(s) == IF s # <<>> /\ s[1] \in {"+", "-"} THEN Tail(s) ELSE s

\* whether a str parses as an int: surrounding whitespace, an optional sign, digits
IsNumeral(s) ==
  LET u == Unsigned(Strip(s))
  IN u # <<>> /\ \A i \in 1..Len(u) : u[i] \in Digits

NumeralValue(s) ==
  LET t == Strip(s)
      v == DigitsValue(Unsigned(t))
  IN IF t[1] = "-" THEN -v ELSE v

\* a range check that forgets the lower bound
RangeErrorsNoLower(n, j, loc, lo, hi) ==
  IF n > hi THEN <<Err("less_than_equal", loc, j)>> ELSE <<>>

\* the errors of an int under Field(ge=, le=)
RangeErrors(n, j, loc, lo, hi) ==
  IF n < lo THEN <<Err("greater_than_equal", loc, j)>>
  ELSE IF n > hi THEN <<Err("less_than_equal", loc, j)>>
  ELSE <<>>

\* a field `name: int = Field(default=, ge=, le=)`: an int is taken as it is,
\* a bool as 0 or 1, a float when it has no fractional part, a str when it
\* parses as an int
DefaultedInt(j, loc, default, lo, hi) ==
  CASE j.t = "missing" -> Ok(default)
    [] j.t \in {"int", "bool"} ->
         [value |-> j.n, errors |-> RangeErrors(j.n, j, loc, lo, hi)]
    [] j.t = "float" ->
         IF j.n % 10 = 0
         THEN [value |-> j.n \div 10, errors |-> RangeErrors(j.n \div 10, j, loc, lo, hi)]
         ELSE Fail("int_from_float", loc, j, default)
    [] j.t = "str" ->
         IF IsNumeral(j.s)
         THEN [value |-> NumeralValue(j.s),
               errors |-> RangeErrors(NumeralValue(j.s), j, loc, lo, hi)]
         ELSE Fail("int_parsing", loc, j, default)
    [] OTHER -> Fail("int_type", loc, j, default)

BoolTrueWords == {Chars("1"), Chars("true"), Chars("t"), Chars("yes"), Chars("y"), Chars("on")}
BoolFalseWords == {Chars("0"), Chars("false"), Chars("f"), Chars("no"), Chars("n"), Chars("off")}

\* a field `name: bool = Field(default=)`: a bool is taken as it is, the
\* numbers 0 and 1 and the usual words are converted
DefaultedBool(j, loc, default) ==
  CASE j.t = "missing" -> Ok(default)
    [] j.t = "bool" -> Ok(j.n = 1)
    [] j.t = "int" ->
         IF j.n \in {0, 1} THEN Ok(j.n = 1) ELSE Fail("bool_parsing", loc, j, default)
    [] j.t = "float" ->
         IF j.n \in {0, 10} THEN Ok(j.n = 10) ELSE Fail("bool_parsing", loc, j, default)
    [] j.t = "str" ->
         IF j.s \in BoolTrueWords THEN Ok(TRUE)
         ELSE IF j.s \in BoolFalseWords THEN Ok(FALSE)
         ELSE Fail("bool_parsing", loc, j, default)
    [] OTHER -> Fail("bool_type", loc, j, default)

\* the errors of the items of a List[str]: each item that is no str
ItemErrors(items, loc) ==
  LET bad == SelectSeq([i \in 1..Len(items) |-> i], LAMBDA i : items[i].t # "str")
  IN [k \in 1..Len(bad) |->
        Err("string_type", loc \o <<ToString(bad[k] - 1)>>, items[bad[k]])]

\* a list field whose max_length is not enforced
DefaultedStrListUnbounded(j, loc, maxLen) ==
  CASE j.t = "missing" -> Ok(<<>>)
    [] j.t = "list" ->
         [value |-> [i \in 1..Len(j.l) |-> j.l[i].s], errors |-> ItemErrors(j.l, loc)]
    [] OTHER -> Fail("list_type", loc, j, <<>>)

\* a field `name: List[str] = Field(default_factory=list, max_length=)`
DefaultedStrList(j, loc, maxLen) ==
  CASE j.t = "missing" -> Ok(<<>>)
    [] j.t = "list" ->
         IF Len(j.l) > maxLen THEN Fail("too_long", loc, j, <<>>)
         ELSE [value |-> [i \in 1..Len(j.l) |-> j.l[i].s], errors |-> ItemErrors(j.l, loc)]
    [] OTHER -> Fail("list_type", loc, j, <<>>)

DefaultBrandVoice == [tone |-> "professional", keywords |-> <<>>, avoid |-> <<>>]

\* class BrandVoice
ValidateBrandVoice(p, loc) ==
  IF p.voice.t = "missing" THEN Ok(DefaultBrandVoice)
  ELSE IF p.voice.t # "object"
  THEN Fail("model_attributes_type", loc, p.voice, DefaultBrandVoice)
  ELSE LET tone == DefaultedEnum(p.tone, loc \o <<"tone">>, Tone, "professional")
           keywords == DefaultedStrList(p.keywords, loc \o <<"keywords">>, MaxKeywords)
           avoid == DefaultedStrList(p.avoid, loc \o <<"avoid">>, MaxAvoid)
       IN [value |-> [tone |-> tone.value, keywords |-> keywords.value,
                      avoid |-> avoid.value],
           errors |-> Collect(<<tone.errors, keywords.errors, avoid.errors>>)]

NoBrand ==
  [brand_name |-> <<>>, tagline |-> None, description |-> None,
   target_audience |-> None, voice |-> DefaultBrandVoice]

\* class BrandSettings
ValidateBrandSettings(p, loc) ==
  IF p.brand.t = "missing" THEN Fail("missing", loc, JObject, NoBrand)
  ELSE IF p.brand.t # "object"
  THEN Fail("model_attributes_type", loc, p.brand, NoBrand)
  ELSE LET brand_name == RequiredStr(p.brand_name, loc \o <<"brand_name">>, p.brand,
                                     MinBrandName, MaxBrandName)
           tagline == OptionalStr(p.tagline, loc \o <<"tagline">>, MaxTagline)
           description == OptionalStr(p.description, loc \o <<"description">>,
                                      MaxDescription)
           target_audience == OptionalStr(p.target_audience,
                                          loc \o <<"target_audience">>, MaxTargetAudience)
           voice == ValidateBrandVoice(p, loc \o <<"voice">>)
       IN [value |-> [brand_name |-> brand_name.value, tagline |-> tagline.value,
                      description |-> description.value,
                      target_audience |-> target_audience.value,
                      voice |-> voice.value],
           errors |-> Collect(<<brand_name.errors, tagline.errors, description.errors,
                                target_audience.errors, voice.errors>>)]

DefaultStyleSettings ==
  [length |-> "medium", include_hashtags |-> TRUE, emoji_level |-> 0,
   formatting_notes |-> None]

\* class StyleSettings
ValidateStyleSettings(p, loc) ==
  IF p.style.t = "missing" THEN Ok(DefaultStyleSettings)
  ELSE IF p.style.t # "object"
  THEN Fail("model_attributes_type", loc, p.style, DefaultStyleSettings)
  ELSE LET length == DefaultedEnum(p.length, loc \o <<"length">>, LengthPreference,
                                   "medium")
           include_hashtags == DefaultedBool(p.include_hashtags,
                                             loc \o <<"include_hashtags">>, TRUE)
           emoji_level == DefaultedInt(p.emoji_level, loc \o <<"emoji_level">>, 0,
                                       MinEmojiLevel, MaxEmojiLevel)
           formatting_notes == OptionalStr(p.formatting_notes,
                                           loc \o <<"formatting_notes">>,
                                           MaxFormattingNotes)
       IN [value |-> [length |-> length.value,
                      include_hashtags |-> include_hashtags.value,
                      emoji_level |-> emoji_level.value,
                      formatting_notes |-> formatting_notes.value],
           errors |-> Collect(<<length.errors, include_hashtags.errors,
                                emoji_level.errors, formatting_notes.errors>>)]

\* class PromptGenerateRequest, validated from the body of the request: every
\* field is checked and the errors of all of them are collected, in the order
\* of the fields
ValidateRequest(p) ==
  LET loc == <<"body">>
      orientation == RequiredEnum(p.orientation, loc \o <<"orientation">>, JObject,
                                  Orientation)
      platform == RequiredEnum(p.platform, loc \o <<"platform">>, JObject, Platform)
      brief == RequiredStr(p.brief, loc \o <<"brief">>, JObject, MinBrief, MaxBrief)
      brand == ValidateBrandSettings(p, loc \o <<"brand">>)
      style == ValidateStyleSettings(p, loc \o <<"style">>)
      additional_context == OptionalStr(p.additional_context,
                                        loc \o <<"additional_context">>,
                                        MaxAdditionalContext)
  IN [value |-> [orientation |-> orientation.value, platform |-> platform.value,
                 brief |-> brief.value, brand |-> brand.value, style |-> style.value,
                 additional_context |-> additional_context.value],
      errors |-> Collect(<<orientation.errors, platform.errors, brief.errors,
                           brand.errors, style.errors, additional_context.errors>>)]

(***************************************************************************)
(* The service: POST /prompts/generate (src/api/routes.py).  Each request  *)
(* in flight has its own payload, its own validated body and its own       *)
(* response; nothing is shared between requests.                           *)
(***************************************************************************)
Slots == 1..MaxRequests

EmptyPayload ==
  [orientation |-> JMissing, platform |-> JMissing, brief |-> JMissing,
   additional_context |-> JMissing,
   brand |-> JMissing, brand_name |-> JMissing, tagline |-> JMissing,
   description |-> JMissing, target_audience |-> JMissing,
   voice |-> JMissing, tone |-> JMissing, keywords |-> JMissing, avoid |-> JMissing,
   style |-> JMissing, length |-> JMissing, include_hashtags |-> JMissing,
   emoji_level |-> JMissing, formatting_notes |-> JMissing]

NoBody ==
  [orientation |-> "other", platform |-> "other", brief |-> <<>>, brand |-> NoBrand,
   style |-> DefaultStyleSettings, additional_context |-> None]

NoMetadata == [k \in {} |-> 0]

NoResponse == [status |-> 0, prompt |-> <<>>, metadata |-> NoMetadata, detail |-> <<>>]

\* the 422 response FastAPI gives for a body that fails validation
ValidationErrorResponse(errors) ==
  [status |-> 422, prompt |-> <<>>, metadata |-> NoMetadata, detail |-> errors]

\* PromptGenerateResponse(prompt=prompt, metadata=metadata), with status 200
PromptGenerateResponse(prompt, metadata) ==
  [status |-> 200, prompt |-> prompt, metadata |-> metadata, detail |-> <<>>]

\* a handler that reads the request from one place shared by all calls
RequestBodyShared(i) == body[1]

\* the handler's parameter `body`: the validated request of this very call
RequestBody(i) == body[i]

\* generate_prompt(body)
GeneratePromptResponse(req) ==
  LET built == BuildPrompt(req)
  IN PromptGenerateResponse(built.prompt, built.metadata)

Init ==
  /\ pc = [i \in Slots |-> "idle"]
  /\ payload = [i \in Slots |-> EmptyPayload]
  /\ body = [i \in Slots |-> NoBody]
  /\ response = [i \in Slots |-> NoResponse]

\* the body is validated before the handler is called; a body that fails is
\* answered with the list of errors and the handler never runs
ValidateBody(i) ==
  /\ pc[i] = "received"
  /\ LET r == ValidateRequest(payload[i])
     IN IF r.errors = <<>>
        THEN /\ body' = [body EXCEPT ![i] = r.value]
             /\ pc' = [pc EXCEPT ![i] = "validated"]
             /\ UNCHANGED response
        ELSE /\ response' = [response EXCEPT ![i] = ValidationErrorResponse(r.errors)]
             /\ pc' = [pc EXCEPT ![i] = "responded"]
             /\ UNCHANGED body
  /\ UNCHANGED payload

\* the handler generate_prompt runs on the validated body
GeneratePrompt(i) ==
  /\ pc[i] = "validated"
  /\ response' = [response EXCEPT ![i] = GeneratePromptResponse(RequestBody(i))]
  /\ pc' = [pc EXCEPT ![i] = "responded"]
  /\ UNCHANGED <<payload, body>>

\* the response is sent and the request's objects are discarded
Complete(i) ==
  /\ pc[i] = "responded"
  /\ pc' = [pc EXCEPT ![i] = "idle"]
  /\ payload' = [payload EXCEPT ![i] = EmptyPayload]
  /\ body' = [body EXCEPT ![i] = NoBody]
  /\ response' = [response EXCEPT ![i] = NoResponse]

(***************************************************************************)
(* The payloads the model sends.  All of them vary a valid base payload.   *)
(***************************************************************************)
\* n copies of the character c
Rep(c, n) == [i \in 1..n |-> c]

\* the characters free texts are made of: a letter, a space, a line break
Alphabet == {"a", " ", "\n"}

\* every text of at most MaxTextLen characters
Texts == UNION {[1..k -> Alphabet] : k \in 0..MaxTextLen}

\* texts whose second line reads like a line the composer itself emits
CraftedTexts ==
  {Chars("a\nDo not use emojis."),
   Chars("a\nUse emojis sparingly at level 3/5."),
   Chars("a\nDo not include hashtags."),
   Chars("a\nInclude relevant hashtags at the end."),
   Chars("a\n## Style")}

\* what a client may send for an optional text
OptionalTextInputs == {JMissing, JNull} \cup {JStr(t) : t \in Texts}

\* the entries of keywords and avoid lists
ItemTexts == {Chars("a"), Chars("b c")}

\* every list of at most MaxListItems entries
StrLists == UNION {[1..k -> {JStr(t) : t \in ItemTexts}] : k \in 0..MaxListItems}

BasePayload ==
  [EmptyPayload EXCEPT !.orientation = JStr(Chars("post")),
                       !.platform = JStr(Chars("linkedin")),
                       !.brief = JStr(Chars("Launch")),
                       !.brand = JObject,
                       !.brand_name = JStr(Chars("Acme"))]

\* the base payload with a style object and a voice object
FullPayload == [BasePayload EXCEPT !.style = JObject, !.voice = JObject]

EnumInputs(members) == {JStr(EnumValue(m)) : m \in members}

(* payloads that pass validation: they vary what the composer renders *)
ComposeStylePayloads ==
  {[FullPayload EXCEPT !.emoji_level = e, !.include_hashtags = h, !.length = l] :
     e \in {JMissing} \cup {JInt(n) : n \in MinEmojiLevel..MaxEmojiLevel},
     h \in {JMissing, JBool(TRUE), JBool(FALSE)},
     l \in {JMissing} \cup EnumInputs(LengthPreference)}

ComposeNotesPayloads ==
  {[FullPayload EXCEPT !.formatting_notes = f, !.emoji_level = e, !.include_hashtags = h] :
     f \in OptionalTextInputs \cup {JStr(t) : t \in CraftedTexts},
     e \in {JInt(0), JInt(3)},
     h \in {JBool(TRUE), JBool(FALSE)}}

ComposeBrandPayloads ==
  {[FullPayload EXCEPT !.tagline = t] : t \in OptionalTextInputs}
  \cup {[FullPayload EXCEPT !.description = t] : t \in OptionalTextInputs}
  \cup {[FullPayload EXCEPT !.target_audience = t] : t \in OptionalTextInputs}
  \cup {[FullPayload EXCEPT !.tagline = t, !.description = t, !.target_audience = t,
                            !.formatting_notes = t] : t \in OptionalTextInputs}
  \cup {[FullPayload EXCEPT !.brand_name = JStr(t)] : t \in Texts \ {<<>>}}

ComposeBriefPayloads ==
  {[BasePayload EXCEPT !.brief = JStr(b), !.additional_context = c] :
     b \in Texts \ {<<>>}, c \in OptionalTextInputs}

ComposeVoicePayloads ==
  {[FullPayload EXCEPT !.keywords = JList(k), !.avoid = JList(a)] :
     k \in StrLists, a \in StrLists}
  \cup {[FullPayload EXCEPT !.tone = t] : t \in {JMissing} \cup EnumInputs(Tone)}
  \cup {[FullPayload EXCEPT !.keywords = k] : k \in {JMissing, JList(<<JStr(<<>>)>>)}}

ComposeEnumPayloads ==
  {[BasePayload EXCEPT !.orientation = o, !.platform = p] :
     o \in EnumInputs(Orientation), p \in EnumInputs(Platform)}

ComposePayloads ==
  ComposeStylePayloads \cup ComposeNotesPayloads \cup ComposeBrandPayloads
    \cup ComposeBriefPayloads \cup ComposeVoicePayloads \cup ComposeEnumPayloads

(* payloads for the validator: valid ones, and ones that violate the schema *)
OrientationInputs ==
  EnumInputs(Orientation)
    \cup {JMissing, JNull, JInt(1), JStr(Chars("tweet")), JStr(Chars("Post")), JStr(<<>>)}

PlatformInputs ==
  EnumInputs(Platform) \cup {JMissing, JStr(Chars("myspace")), JStr(Chars("LinkedIn"))}

BriefInputs ==
  {JMissing, JNull, JInt(7), JStr(<<>>), JStr(Chars(" ")), JStr(Chars("a")),
   JStr(Rep("a", MaxBrief)), JStr(Rep("a", MaxBrief + 1))}

BrandNameInputs ==
  {JMissing, JNull, JStr(<<>>), JStr(Chars("a")), JStr(Rep("a", MaxBrandName)),
   JStr(Rep("a", MaxBrandName + 1))}

EmojiLevelInputs ==
  {JMissing, JNull, JList(<<>>)}
    \cup {JInt(n) : n \in (MinEmojiLevel - 2)..(MaxEmojiLevel + 2)}
    \cup {JBool(TRUE), JBool(FALSE)}
    \cup {JFloat(30), JFloat(35), JFloat(5), JFloat(60), JFloat(-10)}
    \cup {JStr(Chars("3")), JStr(Chars("0")), JStr(Chars("6")), JStr(Chars("-1")),
          JStr(Chars("3.5")), JStr(Chars("abc")), JStr(<<>>)}

OverlongInputs(maxLen) ==
  {JNull, JInt(7), JStr(<<>>), JStr(Rep("a", maxLen)), JStr(Rep("a", maxLen + 1))}

ListInputs(maxLen) ==
  {JMissing, JNull, JStr(Chars("a")), JList(<<>>), JList(<<JInt(5)>>),
   JList(<<JStr(Chars("a")), JInt(5), JNull>>),
   JList(Rep(JStr(Chars("a")), maxLen)), JList(Rep(JStr(Chars("a")), maxLen + 1))}

ObjectInputs == {JMissing, JNull, JStr(Chars("a")), JObject}

ValidateEnumPayloads ==
  {[BasePayload EXCEPT !.orientation = o, !.platform = p] :
     o \in OrientationInputs, p \in PlatformInputs}

ValidateRequiredPayloads ==
  {[BasePayload EXCEPT !.brief = b, !.brand_name = n, !.style = JObject,
                       !.emoji_level = e] :
     b \in BriefInputs, n \in BrandNameInputs, e \in EmojiLevelInputs}

ValidateOptionalPayloads ==
  {[FullPayload EXCEPT !.tagline = t] : t \in OverlongInputs(MaxTagline)}
  \cup {[FullPayload EXCEPT !.description = t] : t \in OverlongInputs(MaxDescription)}
  \cup {[FullPayload EXCEPT !.target_audience = t] :
          t \in OverlongInputs(MaxTargetAudience)}
  \cup {[FullPayload EXCEPT !.formatting_notes = t] :
          t \in OverlongInputs(MaxFormattingNotes)}
  \cup {[FullPayload EXCEPT !.additional_context = t] :
          t \in OverlongInputs(MaxAdditionalContext)}

ValidateVoicePayloads ==
  {[FullPayload EXCEPT !.keywords = k, !.avoid = a, !.tone = t] :
     k \in ListInputs(MaxKeywords), a \in ListInputs(MaxAvoid),
     t \in {JMissing, JNull, JStr(Chars("bold")), JStr(Chars("Bold")),
            JStr(Chars("angry"))}}

ValidateStylePayloads ==
  {[FullPayload EXCEPT !.length = l, !.include_hashtags = h] :
     l \in EnumInputs(LengthPreference)
             \cup {JMissing, JNull, JStr(Chars("Long")), JStr(Chars("huge"))},
     h \in {JMissing, JNull, JBool(TRUE), JBool(FALSE), JInt(1), JInt(2),
            JStr(Chars("yes")), JStr(Chars("maybe"))}}

ValidateObjectPayloads ==
  {[BasePayload EXCEPT !.brand = b, !.style = s, !.voice = v,
                       !.brand_name = IF b = JObject THEN n ELSE JMissing] :
     b \in ObjectInputs, s \in ObjectInputs, v \in ObjectInputs,
     n \in {JMissing, JStr(Chars("Acme"))}}

ValidatePayloads ==
  ValidateEnumPayloads \cup ValidateRequiredPayloads \cup ValidateOptionalPayloads
    \cup ValidateVoicePayloads \cup ValidateStylePayloads \cup ValidateObjectPayloads

(* payloads of the concurrent service *)
ServicePayloads ==
  {BasePayload,
   [BasePayload EXCEPT !.brief = JMissing, !.brand_name = JMissing],
   [BasePayload EXCEPT !.orientation = JStr(Chars("tweet"))],
   [FullPayload EXCEPT !.orientation = JStr(Chars("ad")),
                       !.platform = JStr(Chars("instagram")),
                       !.keywords = JList(<<JStr(Chars("seasonal")), JStr(Chars("craft"))>>),
                       !.avoid = JList(<<JStr(Chars("cheap"))>>)],
   [FullPayload EXCEPT !.emoji_level = JInt(3), !.include_hashtags = JBool(FALSE)],
   [FullPayload EXCEPT !.emoji_level = JInt(6)]}

\* a request arrives
Receive(i) ==
  /\ pc[i] = "idle"
  /\ \E p \in ServicePayloads : payload' = [payload EXCEPT ![i] = p]
  /\ pc' = [pc EXCEPT ![i] = "received"]
  /\ UNCHANGED <<body, response>>

\* one request, just received, with the given payload
InitWith(payloads) ==
  /\ pc = [i \in Slots |-> IF i = 1 THEN "received" ELSE "idle"]
  /\ \E p \in payloads : payload = [i \in Slots |-> IF i = 1 THEN p ELSE EmptyPayload]
  /\ body = [i \in Slots |-> NoBody]
  /\ response = [i \in Slots |-> NoResponse]

InitValidate == InitWith(ValidatePayloads)

InitCompose == InitWith(ComposePayloads)

Next == \E i \in Slots : Receive(i) \/ ValidateBody(i) \/ GeneratePrompt(i) \/ Complete(i)

NextHandle == \E i \in Slots : ValidateBody(i) \/ GeneratePrompt(i)

\* the service handling requests concurrently
Spec == Init /\ [][Next]_vars

\* the validator and the handler on one request, over payloads of every kind
SpecValidate == InitValidate /\ [][NextHandle]_vars

\* the composer on one validated request, over requests of every content
SpecCompose == InitCompose /\ [][NextHandle]_vars

(***************************************************************************)
(* Vocabulary of the properties.                                           *)
(***************************************************************************)
\* whether the text sub occurs in the text s
Contains(s, sub) ==
  \E i \in 1..(Len(s) - Len(sub) + 1) :
     s[i] = sub[1] /\ SubSeq(s, i, i + Len(sub) - 1) = sub

\* the lines of a text: the pieces between its line breaks
Lines(s) ==
  LET breaks == {i \in 1..Len(s) : s[i] = "\n"}
      n == Cardinality(breaks)
      at == [k \in 0..(n + 1) |->
               IF k = 0 THEN 0
               ELSE IF k = n + 1 THEN Len(s) + 1
               ELSE CHOOSE i \in breaks : Cardinality({j \in breaks : j < i}) = k - 1]
  IN [k \in 1..(n + 1) |-> SubSeq(s, at[k - 1] + 1, at[k] - 1)]

Handled(i) == pc[i] \in {"validated", "responded"}

Answered(i) == pc[i] = "responded"

Generated(i) == pc[i] = "responded" /\ response[i].status = 200

Rejected(i) == pc[i] = "responded" /\ response[i].status = 422

EnumValues(members) == {EnumValue(m) : m \in members}

(* the constraints the schema declares, field by field, on a payload p *)
MissingRequired(p) ==
  \/ p.orientation.t = "missing"
  \/ p.platform.t = "missing"
  \/ p.brief.t = "missing"
  \/ p.brand.t = "missing"
  \/ p.brand.t = "object" /\ p.brand_name.t = "missing"

EnumOutsideDomain(p) ==
  \/ p.orientation.t = "str" /\ p.orientation.s \notin EnumValues(Orientation)
  \/ p.platform.t = "str" /\ p.platform.s \notin EnumValues(Platform)
  \/ /\ p.brand.t = "object" /\ p.voice.t = "object"
     /\ p.tone.t = "str" /\ p.tone.s \notin EnumValues(Tone)
  \/ /\ p.style.t = "object"
     /\ p.length.t = "str" /\ p.length.s \notin EnumValues(LengthPreference)

OutsideLength(j, lo, hi) == j.t = "str" /\ (Len(j.s) < lo \/ Len(j.s) > hi)

StringOutsideBounds(p) ==
  \/ OutsideLength(p.brief, 1, 2000)
  \/ OutsideLength(p.additional_context, 0, 2000)
  \/ /\ p.brand.t = "object"
     /\ \/ OutsideLength(p.brand_name, 1, 120)
        \/ OutsideLength(p.tagline, 0, 200)
        \/ OutsideLength(p.description, 0, 800)
        \/ OutsideLength(p.target_audience, 0, 400)
  \/ p.style.t = "object" /\ OutsideLength(p.formatting_notes, 0, 400)

ListTooLong(p) ==
  /\ p.brand.t = "object" /\ p.voice.t = "object"
  /\ \/ p.keywords.t = "list" /\ Len(p.keywords.l) > 30
     \/ p.avoid.t = "list" /\ Len(p.avoid.l) > 30

Violates(p) ==
  MissingRequired(p) \/ EnumOutsideDomain(p) \/ StringOutsideBounds(p) \/ ListTooLong(p)

(***************************************************************************)
(* C1: a payload that violates a declared constraint (a required field     *)
(* missing, an enum token outside its domain, a string outside its length  *)
(* bounds, a list of more than 30 entries) is answered with a client-error *)
(* status and a non-empty list of field errors; the handler never runs for *)
(* it and no prompt is produced.                                           *)
(***************************************************************************)
C1_InvalidPayloadRejected ==
  \A i \in Slots :
    (pc[i] # "idle" /\ Violates(payload[i])) =>
      /\ pc[i] # "validated"
      /\ body[i] = NoBody
      /\ Answered(i) =>
           /\ response[i].status \in 400..499
           /\ response[i].detail # <<>>
           /\ response[i].prompt = <<>>
           /\ DOMAIN response[i].metadata = {}

\* a payload with a list of 31 entries and one with a wrong-case enum token
\* have been answered
C1_Witness ==
  \E i \in Slots :
    /\ Answered(i)
    /\ ListTooLong(payload[i])
    /\ EnumOutsideDomain(payload[i])
    /\ response[i].status = 422

IfSet(cond, x) == IF cond THEN {x} ELSE {}

\* the error a str field owes for its length, if any
LengthOffence(j, loc, lo, hi) ==
  IfSet(j.t = "str" /\ Len(j.s) < lo, Err("string_too_short", loc, j))
    \cup IfSet(j.t = "str" /\ Len(j.s) > hi, Err("string_too_long", loc, j))

\* the error an enum field owes for its token, if any
TokenOffence(j, loc, members) ==
  IfSet(j.t = "str" /\ j.s \notin EnumValues(members), Err("enum", loc, j))

\* the error a required field owes when it is missing from its object
MissingOffence(j, loc) == IfSet(j.t = "missing", Err("missing", loc, JObject))

\* the offending fields of a payload: location path, kind of violation, offending value
OffendingFields(p) ==
  MissingOffence(p.orientation, <<"body", "orientation">>)
    \cup TokenOffence(p.orientation, <<"body", "orientation">>, Orientation)
    \cup MissingOffence(p.platform, <<"body", "platform">>)
    \cup TokenOffence(p.platform, <<"body", "platform">>, Platform)
    \cup MissingOffence(p.brief, <<"body", "brief">>)
    \cup LengthOffence(p.brief, <<"body", "brief">>, 1, 2000)
    \cup MissingOffence(p.brand, <<"body", "brand">>)
    \cup LengthOffence(p.additional_context, <<"body", "additional_context">>, 0, 2000)
    \cup (IF p.brand.t # "object" THEN {}
          ELSE MissingOffence(p.brand_name, <<"body", "brand", "brand_name">>)
                 \cup LengthOffence(p.brand_name, <<"body", "brand", "brand_name">>, 1, 120)
                 \cup LengthOffence(p.tagline, <<"body", "brand", "tagline">>, 0, 200)
                 \cup LengthOffence(p.description, <<"body", "brand", "description">>, 0, 800)
                 \cup LengthOffence(p.target_audience,
                                    <<"body", "brand", "target_audience">>, 0, 400))
    \cup (IF p.brand.t # "object" \/ p.voice.t # "object" THEN {}
          ELSE TokenOffence(p.tone, <<"body", "brand", "voice", "tone">>, Tone)
                 \cup IfSet(p.keywords.t = "list" /\ Len(p.keywords.l) > 30,
                            Err("too_long", <<"body", "brand", "voice", "keywords">>,
                                p.keywords))
                 \cup IfSet(p.avoid.t = "list" /\ Len(p.avoid.l) > 30,
                            Err("too_long", <<"body", "brand", "voice", "avoid">>, p.avoid)))
    \cup (IF p.style.t # "object" THEN {}
          ELSE TokenOffence(p.length, <<"body", "style", "length">>, LengthPreference)
                 \cup IfSet(p.emoji_level.t = "int" /\ p.emoji_level.n < 0,
                            Err("greater_than_equal", <<"body", "style", "emoji_level">>,
                                p.emoji_level))
                 \cup IfSet(p.emoji_level.t = "int" /\ p.emoji_level.n > 5,
                            Err("less_than_equal", <<"body", "style", "emoji_level">>,
                                p.emoji_level))
                 \cup LengthOffence(p.formatting_notes,
                                    <<"body", "style", "formatting_notes">>, 0, 400))

(***************************************************************************)
(* C2: validation does not stop at the first failure: the error list of an *)
(* answered payload has, for every offending field, an entry with that     *)
(* field's location path, the kind of violation and the offending value.   *)
(***************************************************************************)
C2_EveryOffendingFieldReported ==
  \A i \in Slots :
    Answered(i) =>
      \A f \in OffendingFields(payload[i]) :
        \E k \in 1..Len(response[i].detail) : response[i].detail[k] = f

\* brief missing, brand.brand_name missing and style.emoji_level out of range,
\* all three reported in one answer
C2_Witness ==
  \E i \in Slots :
    /\ Rejected(i)
    /\ payload[i].brief.t = "missing"
    /\ payload[i].brand_name.t = "missing"
    /\ payload[i].emoji_level = JInt(6)
    /\ Cardinality(OffendingFields(payload[i])) = 3
    /\ Len(response[i].detail) = 3

EmojiLevelPath == <<"body", "style", "emoji_level">>

EmojiLevelSupplied(p) == p.style.t = "object" /\ p.emoji_level.t # "missing"

\* the payload's emoji_level has passed validation: no error names it
EmojiLevelAccepted(i) ==
  \/ pc[i] = "validated"
  \/ Generated(i)
  \/ Rejected(i) /\ \A k \in 1..Len(response[i].detail) :
                       response[i].detail[k].loc # EmojiLevelPath

\* a JSON integer from 0 to 5
IsLevelInteger(j) == j.t = "int" /\ j.n \in 0..5

\* a value that is, or converts without loss to, an integer from 0 to 5: such
\* an integer, a boolean (0 or 1), a float with no fractional part, a string
\* that holds the decimal numeral
ConvertsToLevel(j) ==
  \/ IsLevelInteger(j)
  \/ j.t = "bool"
  \/ j.t = "float" /\ \E n \in 0..5 : j.n = 10 * n
  \/ j.t = "str" /\ \E n \in 0..5 : j.s = IntToStr(n)

(***************************************************************************)
(* C3, as stated: style.emoji_level is accepted exactly when it is an      *)
(* integer in 0..5; every out-of-range value and every non-integer value   *)
(* (a numeric string, a float, a boolean) fails validation.                *)
(***************************************************************************)
C3_AcceptedExactlyIntegers ==
  \A i \in Slots :
    (Handled(i) /\ EmojiLevelSupplied(payload[i])) =>
      (EmojiLevelAccepted(i) <=> IsLevelInteger(payload[i].emoji_level))

(***************************************************************************)
(* C3, amended: style.emoji_level is accepted exactly when it is an        *)
(* integer in 0..5 or converts without loss to one (a boolean, a float     *)
(* with no fractional part, a string holding the numeral); the validated   *)
(* request then holds that integer.  Out-of-range values, floats with a    *)
(* fractional part, other strings, null and lists fail.                    *)
(***************************************************************************)
C3_AcceptedExactlyConvertible ==
  \A i \in Slots :
    (Handled(i) /\ EmojiLevelSupplied(payload[i])) =>
      /\ EmojiLevelAccepted(i) <=> ConvertsToLevel(payload[i].emoji_level)
      /\ (pc[i] = "validated" \/ Generated(i)) =>
           /\ body[i].style.emoji_level \in 0..5
           /\ payload[i].emoji_level.t = "int" =>
                body[i].style.emoji_level = payload[i].emoji_level.n

\* the numeric string "3" has been accepted as level 3, in a request where
\* 6 and -1 are rejected
C3_Witness ==
  \E i \in Slots :
    /\ pc[i] = "validated"
    /\ payload[i].emoji_level = JStr(Chars("3"))
    /\ body[i].style.emoji_level = 3

(* what the client asked for, read off the payload, defaults applied *)
SentTone(p) ==
  IF p.voice.t = "object" /\ p.tone.t = "str" THEN p.tone.s ELSE Chars("professional")

SentLength(p) ==
  IF p.style.t = "object" /\ p.length.t = "str" THEN p.length.s ELSE Chars("medium")

SentHashtags(p) ==
  IF p.style.t = "object" /\ p.include_hashtags.t = "bool"
  THEN p.include_hashtags.n = 1 ELSE TRUE

SentEmojiLevel(p) ==
  IF p.style.t = "object" /\ p.emoji_level.t = "int" THEN p.emoji_level.n ELSE 0

MetadataKeys ==
  {"orientation", "platform", "brand_name", "tone", "length", "include_hashtags",
   "emoji_level"}

(***************************************************************************)
(* C4: the metadata of a generated response has exactly the seven keys     *)
(* orientation, platform, brand_name, tone, length, include_hashtags,      *)
(* emoji_level, each holding the field of the validated request, defaults  *)
(* applied: an omitted style gives length "medium", include_hashtags true, *)
(* emoji_level 0, an omitted voice gives tone "professional".              *)
(***************************************************************************)
C4_MetadataEchoesRequest ==
  \A i \in Slots :
    Generated(i) =>
      LET m == response[i].metadata
          p == payload[i]
          req == body[i]
      IN /\ DOMAIN m = MetadataKeys
         /\ m.orientation = EnumValue(req.orientation) /\ m.orientation = p.orientation.s
         /\ m.platform = EnumValue(req.platform) /\ m.platform = p.platform.s
         /\ m.brand_name = req.brand.brand_name /\ m.brand_name = p.brand_name.s
         /\ m.tone = EnumValue(req.brand.voice.tone) /\ m.tone = SentTone(p)
         /\ m.length = EnumValue(req.style.length) /\ m.length = SentLength(p)
         /\ m.include_hashtags = req.style.include_hashtags
         /\ m.include_hashtags = SentHashtags(p)
         /\ m.emoji_level = req.style.emoji_level
         /\ m.emoji_level = SentEmojiLevel(p)

\* a response to a request that asked for length "long" and emoji level 4
C4_Witness ==
  \E i \in Slots :
    /\ Generated(i)
    /\ payload[i].length = JStr(Chars("long"))
    /\ payload[i].emoji_level = JInt(4)
    /\ payload[i].include_hashtags = JBool(FALSE)
    /\ response[i].metadata.length = Chars("long")
    /\ response[i].metadata.emoji_level = 4
    /\ response[i].metadata.include_hashtags = FALSE

(* the lines of the prompt, and its Style block *)
\* the first line after line `from` that reads `text`, or 0
FirstIndex(lines, from, text) ==
  IF \E k \in (from + 1)..Len(lines) : lines[k] = text
  THEN CHOOSE k \in (from + 1)..Len(lines) :
         lines[k] = text /\ \A j \in (from + 1)..(k - 1) : lines[j] # text
  ELSE 0

\* the lines between the "## Style" header and the "## User Brief" header
StyleBlock(prompt) ==
  LET ls == Lines(prompt)
      h == FirstIndex(ls, 0, Chars("## Style"))
      e == FirstIndex(ls, h, Chars("## User Brief"))
  IN SubSeq(ls, h + 1, e - 1)

\* how many lines of a block belong to a set of lines
CountLines(block, set) == Cardinality({k \in 1..Len(block) : block[k] \in set})

EmojiLines ==
  {Chars("Do not use emojis.")}
    \cup {Chars("Use emojis sparingly at level ") \o <<d>> \o Chars("/5.") :
            d \in {"1", "2", "3", "4", "5"}}

EmojiLineFor(level) ==
  IF level = 0 THEN Chars("Do not use emojis.")
  ELSE Chars("Use emojis sparingly at level ") \o IntToStr(level) \o Chars("/5.")

HashtagLines ==
  {Chars("Include relevant hashtags at the end."), Chars("Do not include hashtags.")}

HashtagLineFor(flag) ==
  IF flag THEN Chars("Include relevant hashtags at the end.")
  ELSE Chars("Do not include hashtags.")

LengthLines ==
  {Chars("Length: short (Keep it concise.)"),
   Chars("Length: medium (Keep it moderately detailed.)"),
   Chars("Length: long (Make it thorough and detailed.)")}

HasBreak(j) == j.t = "str" /\ \E k \in 1..Len(j.s) : j.s[k] = "\n"

\* some free text of the payload holds a line break
HasLineBreak(p) ==
  \/ \E j \in {p.brief, p.additional_context, p.brand_name, p.tagline, p.description,
               p.target_audience, p.formatting_notes} : HasBreak(j)
  \/ \E l \in {p.keywords, p.avoid} : \E k \in 1..Len(l.l) : HasBreak(l.l[k])

(***************************************************************************)
(* C5, as stated: the Style block of the prompt holds exactly one emoji    *)
(* instruction line: "Do not use emojis." when emoji_level is 0, "Use      *)
(* emojis sparingly at level N/5." when it is N in 1..5.                   *)
(***************************************************************************)
C5_ExactlyOneEmojiLine ==
  \A i \in Slots :
    Generated(i) =>
      LET block == StyleBlock(response[i].prompt)
      IN /\ CountLines(block, EmojiLines) = 1
         /\ CountLines(block, {EmojiLineFor(SentEmojiLevel(payload[i]))}) = 1

(***************************************************************************)
(* C5, amended: the Style block the composer emits holds the emoji         *)
(* instruction of the request's emoji_level on the line directly after its *)
(* Length line and directly before the hashtag line; when no free text of  *)
(* the request holds a line break, that is the only emoji instruction line *)
(* of the Style block.                                                     *)
(***************************************************************************)
C5_EmojiLineAfterLength ==
  \A i \in Slots :
    Generated(i) =>
      LET prompt == response[i].prompt
          emoji == EmojiLineFor(SentEmojiLevel(payload[i]))
      IN /\ \E len \in LengthLines : \E tag \in HashtagLines :
              Contains(prompt, Chars("\n## Style\n") \o len \o <<"\n">> \o emoji
                                 \o <<"\n">> \o tag \o Chars("\nFormatting notes: "))
         /\ ~HasLineBreak(payload[i]) =>
              /\ CountLines(StyleBlock(prompt), EmojiLines) = 1
              /\ CountLines(StyleBlock(prompt), {emoji}) = 1

\* a prompt for emoji level 3 whose formatting notes carry, after a line
\* break, the line "Do not use emojis."
C5_Witness ==
  \E i \in Slots :
    /\ Generated(i)
    /\ payload[i].emoji_level = JInt(3)
    /\ payload[i].formatting_notes = JStr(Chars("a\nDo not use emojis."))
    /\ Contains(response[i].prompt,
                Chars(")\nUse emojis sparingly at level 3/5.\n"))
    /\ CountLines(StyleBlock(response[i].prompt), EmojiLines) = 2

(***************************************************************************)
(* C6, as stated: the Style block of the prompt holds exactly one hashtag  *)
(* instruction line: "Include relevant hashtags at the end." when          *)
(* include_hashtags is true, "Do not include hashtags." when it is false.  *)
(***************************************************************************)
C6_ExactlyOneHashtagLine ==
  \A i \in Slots :
    Generated(i) =>
      LET block == StyleBlock(response[i].prompt)
      IN /\ CountLines(block, HashtagLines) = 1
         /\ CountLines(block, {HashtagLineFor(SentHashtags(payload[i]))}) = 1

(***************************************************************************)
(* C6, amended: the Style block the composer emits holds the hashtag       *)
(* instruction of the request's include_hashtags on the line directly      *)
(* after the emoji instruction and directly before the formatting notes;   *)
(* when no free text of the request holds a line break, that is the only   *)
(* hashtag instruction line of the Style block.                            *)
(***************************************************************************)
C6_HashtagLineAfterEmoji ==
  \A i \in Slots :
    Generated(i) =>
      LET prompt == response[i].prompt
          tag == HashtagLineFor(SentHashtags(payload[i]))
      IN /\ \E len \in LengthLines : \E emoji \in EmojiLines :
              Contains(prompt, Chars("\n## Style\n") \o len \o <<"\n">> \o emoji
                                 \o <<"\n">> \o tag \o Chars("\nFormatting notes: "))
         /\ ~HasLineBreak(payload[i]) =>
              /\ CountLines(StyleBlock(prompt), HashtagLines) = 1
              /\ CountLines(StyleBlock(prompt), {tag}) = 1

\* a prompt for include_hashtags false whose formatting notes carry, after a
\* line break, the line "Include relevant hashtags at the end."
C6_Witness ==
  \E i \in Slots :
    /\ Generated(i)
    /\ payload[i].include_hashtags = JBool(FALSE)
    /\ payload[i].formatting_notes = JStr(Chars("a\nInclude relevant hashtags at the end."))
    /\ Contains(response[i].prompt, Chars("/5.\nDo not include hashtags.\nFormatting notes: a\n"))
    /\ CountLines(StyleBlock(response[i].prompt), HashtagLines) = 2

(* how the payload's optional texts and lists are to be rendered *)
IsOmitted(j) == j.t \in {"missing", "null"}

\* the field's own value when it is supplied, "N/A" when it is omitted
OwnValueOrNA(j) == IF IsOmitted(j) THEN Chars("N/A") ELSE j.s

\* the field's own value when it is supplied and not empty, "N/A" otherwise
NonEmptyValueOrNA(j) == IF IsOmitted(j) \/ j.s = <<>> THEN Chars("N/A") ELSE j.s

\* the entries joined with ", ", "N/A" for no entry
EntriesOrNA(j) ==
  IF j.t # "list" \/ j.l = <<>> THEN Chars("N/A")
  ELSE Join(Chars(", "), [k \in 1..Len(j.l) |-> j.l[k].s])

\* the prompt has a line break, the label, the text and a line break
HasLabelledLine(prompt, label, text) ==
  Contains(prompt, <<"\n">> \o Chars(label) \o text \o <<"\n">>)

ListsRendered(prompt, p) ==
  /\ HasLabelledLine(prompt, "Include/Emphasize keywords: ", EntriesOrNA(p.keywords))
  /\ HasLabelledLine(prompt, "Avoid: ", EntriesOrNA(p.avoid))

(***************************************************************************)
(* C7, as stated: tagline, description, target_audience and                *)
(* formatting_notes are each rendered on their own labelled line, as "N/A" *)
(* when the field is omitted and as the field's own value when it is       *)
(* supplied; the keywords and avoid lines show "N/A" for an empty list and *)
(* the entries joined with ", " otherwise.                                 *)
(***************************************************************************)
C7_OwnValueWhenSupplied ==
  \A i \in Slots :
    Generated(i) =>
      LET prompt == response[i].prompt
          p == payload[i]
      IN /\ HasLabelledLine(prompt, "Tagline: ", OwnValueOrNA(p.tagline))
         /\ HasLabelledLine(prompt, "Description/positioning: ", OwnValueOrNA(p.description))
         /\ HasLabelledLine(prompt, "Target audience: ", OwnValueOrNA(p.target_audience))
         /\ HasLabelledLine(prompt, "Formatting notes: ", OwnValueOrNA(p.formatting_notes))
         /\ ListsRendered(prompt, p)

(***************************************************************************)
(* C7, amended: each of the four optional fields is rendered after its     *)
(* label as "N/A" when the field is omitted or is the empty string, and as *)
(* the field's own value when it is supplied and not empty; the keywords   *)
(* and avoid lines show "N/A" for an empty list and the entries joined     *)
(* with ", " otherwise.                                                    *)
(***************************************************************************)
C7_OwnValueWhenNotEmpty ==
  \A i \in Slots :
    Generated(i) =>
      LET prompt == response[i].prompt
          p == payload[i]
      IN /\ HasLabelledLine(prompt, "Tagline: ", NonEmptyValueOrNA(p.tagline))
         /\ HasLabelledLine(prompt, "Description/positioning: ",
                            NonEmptyValueOrNA(p.description))
         /\ HasLabelledLine(prompt, "Target audience: ",
                            NonEmptyValueOrNA(p.target_audience))
         /\ HasLabelledLine(prompt, "Formatting notes: ",
                            NonEmptyValueOrNA(p.formatting_notes))
         /\ ListsRendered(prompt, p)

\* a prompt for a request whose tagline is the empty string, and one field
\* of which is a text of its own
C7_Witness ==
  \E i \in Slots :
    /\ Generated(i)
    /\ payload[i].tagline = JStr(<<>>)
    /\ payload[i].formatting_notes = JStr(<<>>)
    /\ Contains(response[i].prompt, Chars("\nTagline: N/A\nDescription/positioning: N/A\n"))
    /\ Contains(response[i].prompt, Chars("\nFormatting notes: N/A\n"))

(***************************************************************************)
(* C8: the response to a request is a function of that request alone: in   *)
(* any interleaving of concurrently handled requests each one receives     *)
(* what it would receive if handled alone, and two requests with equal     *)
(* validated content receive the same prompt and metadata.                 *)
(***************************************************************************)
\* the response to a payload handled on its own
HandledAlone(p) ==
  LET r == ValidateRequest(p)
  IN IF r.errors = <<>> THEN GeneratePromptResponse(r.value)
     ELSE ValidationErrorResponse(r.errors)

SameResponse(a, b) ==
  /\ a.status = b.status
  /\ a.prompt = b.prompt
  /\ a.detail = b.detail
  /\ DOMAIN a.metadata = DOMAIN b.metadata
  /\ \A k \in DOMAIN a.metadata : a.metadata[k] = b.metadata[k]

C8_ResponseDependsOnRequestAlone ==
  /\ \A i \in Slots : Answered(i) => SameResponse(response[i], HandledAlone(payload[i]))
  /\ \A i, j \in Slots :
       (Generated(i) /\ Generated(j) /\ body[i] = body[j]) =>
          SameResponse(response[i], response[j])

\* two requests of different content, answered while both were in flight
C8_Witness ==
  \E i, j \in Slots :
    /\ Generated(i) /\ Generated(j)
    /\ payload[i].emoji_level = JInt(3)
    /\ payload[j].orientation = JStr(Chars("ad"))
    /\ response[i].prompt # response[j].prompt

(***************************************************************************)
(* C9: the first line of the prompt is the persona sentence; the seven     *)
(* header lines occur as lines of the prompt in the order Task, Brand,     *)
(* Voice & Constraints, Style, User Brief, Additional Context, Output      *)
(* Requirements; the Task block holds the orientation instruction, then    *)
(* the platform instruction, of the request's own orientation and          *)
(* platform; the prompt ends with the three output-requirement directives. *)
(***************************************************************************)
C9_HeadersInFixedOrder ==
  \A i \in Slots :
    Generated(i) =>
      LET ls == Lines(response[i].prompt)
          n == Len(ls)
          brand == FirstIndex(ls, 2, Chars("## Brand"))
          voice == FirstIndex(ls, brand, Chars("## Voice & Constraints"))
          style == FirstIndex(ls, voice, Chars("## Style"))
          brief == FirstIndex(ls, style, Chars("## User Brief"))
          context == FirstIndex(ls, brief, Chars("## Additional Context"))
          output == FirstIndex(ls, context, Chars("## Output Requirements"))
      IN /\ n >= 4
         /\ ls[1] = Chars("You are a world-class brand copywriter and prompt engineer.")
         /\ ls[2] = Chars("## Task")
         /\ ls[3] = Chars(OrientationNotesTable[body[i].orientation])
         /\ EnumValue(body[i].orientation) = payload[i].orientation.s
         /\ ls[4] = Chars(PlatformNotesTable[body[i].platform])
         /\ EnumValue(body[i].platform) = payload[i].platform.s
         /\ brand = 5
         /\ voice > brand /\ style > voice /\ brief > style /\ context > brief
         /\ output > context
         /\ ls[n - 3] = Chars("## Output Requirements")
         /\ ls[n - 2] = Chars("- Output only the final content (no analysis).")
         /\ ls[n - 1] = Chars("- Ensure the content is on-brand and platform-appropriate.")
         /\ ls[n] = Chars("- Provide 1 primary version, plus variants if the orientation suggests it (e.g., ads).")

\* a prompt for orientation "email" on platform "youtube"
C9_Witness ==
  \E i \in Slots :
    /\ Generated(i)
    /\ payload[i].orientation = JStr(Chars("email"))
    /\ payload[i].platform = JStr(Chars("youtube"))
    /\ Lines(response[i].prompt)[3]
         = Chars("Create an email draft with subject lines and a clear CTA.")

(***************************************************************************)
(* C10: for every validated request, a brief or additional_context made    *)
(* only of whitespace included, the "## User Brief" header is directly     *)
(* followed by the trimmed brief and the "## Additional Context" header by *)
(* the trimmed additional_context, or "N/A" when that is absent; neither   *)
(* section is left without its content line.                               *)
(***************************************************************************)
TrimmedBrief(p) == Strip(p.brief.s)

TrimmedContext(p) == Strip(NonEmptyValueOrNA(p.additional_context))

C10_SectionsHoldContent ==
  \A i \in Slots :
    Generated(i) =>
      /\ TrimmedBrief(payload[i]) # <<>>
      /\ TrimmedContext(payload[i]) # <<>>
      /\ Contains(response[i].prompt,
                  Chars("\n## User Brief\n") \o TrimmedBrief(payload[i])
                    \o Chars("\n## Additional Context\n") \o TrimmedContext(payload[i])
                    \o Chars("\n## Output Requirements\n"))

(* blank lines of the prompt *)
IsBlank(line) == Strip(line) = <<>>

SectionHeaders ==
  {Chars("## Task"), Chars("## Brand"), Chars("## Voice & Constraints"),
   Chars("## Style"), Chars("## User Brief"), Chars("## Additional Context"),
   Chars("## Output Requirements")}

\* the line begins with "## "
IsHeaderLine(line) == Len(line) >= 3 /\ SubSeq(line, 1, 3) = Chars("## ")

(***************************************************************************)
(* C11: for every validated request, texts with embedded line breaks or    *)
(* blank lines included, no line of the prompt is empty or whitespace-only *)
(* and the prompt never holds two consecutive newline characters.          *)
(***************************************************************************)
C11_NoBlankLine ==
  \A i \in Slots :
    Generated(i) =>
      LET ls == Lines(response[i].prompt)
      IN /\ \A k \in 1..Len(ls) : ~IsBlank(ls[k])
         /\ ~Contains(response[i].prompt, <<"\n", "\n">>)

(***************************************************************************)
(* C12: for every validated request, consecutive blocks of the prompt are  *)
(* separated by exactly one blank line: each "## " section header line is  *)
(* preceded by a single empty line.                                        *)
(***************************************************************************)
C12_HeadersPrecededByBlankLine ==
  \A i \in Slots :
    Generated(i) =>
      LET ls == Lines(response[i].prompt)
      IN /\ \A h \in SectionHeaders : \E k \in 1..Len(ls) : ls[k] = h
         /\ \A k \in 1..Len(ls) :
              IsHeaderLine(ls[k]) =>
                /\ k > 2
                /\ ls[k - 1] = <<>>
                /\ ls[k - 2] # <<>>

====
